---- MODULE Spec2Model ----
(***************************************************************************)
(* State-machine model of the DSO-FinalProject simulation core:            *)
(*   TargetModel / TrajectoryGenerator  (src/TargetModel.py,               *)
(*                                       src/TrajectoryGenerator.py)       *)
(*   TrackerModel                       (src/TrackerModel.py)              *)
(*   TDoACalculation                    (src/TDoACalculation.py)           *)
(*                                                                         *)
(* Floating-point quantities are modelled in fixed point: the integer n    *)
(* stands for the real n / Scale.  Every product, quotient and square root *)
(* rounds toward zero, so results carry a rounding error of one unit in    *)
(* the last place, as the float operations of the source do.               *)
(***************************************************************************)
EXTENDS Integers, Sequences, FiniteSets, TLC

VARIABLES
    \* TargetModel
    control_points,        \* self.control_points
    target_velocity,       \* self.target_velocity
    current_parameter,     \* self.current_parameter
    telemetry,             \* value returned by the last get_tracker_telemetry
    trajectory_points,     \* value returned by the last get_trajectory
    \* TrackerModel, problem assembly
    horizon,               \* self._horizon
    sym_values,            \* numeric values substituted for the symbolic vectors
    built,                 \* value returned by the last create_* / get_*_limits call
    \* TrackerModel, history (one record of three logs per tracker instance)
    storage,               \* _storage_states, _storage_control, _storage_predictions
    exported,              \* outcome of the last get_*_storage call
    \* TDoACalculation
    table_args,            \* arguments TDoACalculation was constructed with
    hyperbolic_parameters, \* self.hyperbolic_parameters
    solve_args,            \* positions find_hyperbolic_solution is called with
    solution,              \* outcome of the last find_hyperbolic_solution
    \* Constructors
    constructed,           \* outcome of the last constructor call
    \* utility.get_trajectory_part
    sliced,                \* value returned by get_trajectory_part, with its arguments
    advance_count,         \* update_tracker_position calls made, before and since the slice
    \* The owner of the objects
    calls,                 \* calls made on the objects of the simulation
    \* TDoAPlot
    plot,                  \* attributes of the TDoAPlot instance
    added                  \* arguments of the add_solution calls made, in call order

target_vars  ==
    <<control_points, target_velocity, current_parameter, telemetry, trajectory_points>>
builder_vars == <<horizon, sym_values, built>>
history_vars == <<storage, exported>>
tdoa_vars    == <<table_args, hyperbolic_parameters, solve_args, solution>>
construct_vars == <<constructed>>
slice_vars == <<sliced, advance_count>>
system_vars == <<calls>>
plot_vars == <<plot, added>>
vars ==
    <<target_vars, builder_vars, history_vars, tdoa_vars, construct_vars, slice_vars,
      system_vars, plot_vars>>

----------------------------------------------------------------------------
(* Fixed-point arithmetic *)

\* Number of fixed-point units in 1.0 (the resolution of the model).
Scale == 1000

One == Scale

Abs(a) == IF a < 0 THEN -a ELSE a

Sgn(a) == IF a < 0 THEN -1 ELSE IF a > 0 THEN 1 ELSE 0

\* Integer quotient rounded toward zero (sign-symmetric, as IEEE rounding is).
TruncDiv(a, b) == Sgn(a) * Sgn(b) * (Abs(a) \div Abs(b))

\* a * b of two fixed-point numbers.
FMul(a, b) == TruncDiv(a * b, Scale)

\* a / b of two fixed-point numbers, b # 0.
FDiv(a, b) == TruncDiv(a * Scale, b)

RECURSIVE SqrtSearch(_, _, _)
SqrtSearch(n, lo, hi) ==
    IF lo >= hi THEN lo
    ELSE CHOOSE r \in { IF mid * mid <= n THEN SqrtSearch(n, mid, hi)
                        ELSE SqrtSearch(n, lo, mid - 1) :
                            mid \in { (lo + hi + 1) \div 2 } } : TRUE

\* Largest r with r * r <= n, for 0 <= n < 2^31.
ISqrt(n) == CHOOSE r \in { SqrtSearch(m, 0, 46340) : m \in { n } } : TRUE

\* np.linalg.norm of a 2-vector of fixed-point numbers.
Norm2(v) == ISqrt(v[1] * v[1] + v[2] * v[2])

\* An integer coordinate as a fixed-point number.
ToFixed(n) == n * Scale

----------------------------------------------------------------------------
(* TrajectoryGenerator: src/TrajectoryGenerator.py *)

\* Requested spline degree: TrajectoryGenerator.__init__ passes degree=3.
SplineDegree == 3

Min(a, b) == IF a < b THEN a ELSE b
Max(a, b) == IF a > b THEN a ELSE b

\* np.clip(degree, 1, count - 1)
ClipDegree(degree, count) == Min(Max(degree, 1), count - 1)

\* Control-point sets the target is built from.  Each has count <= degree + 1
\* control points, so the clamped knot vector has a single span [0, 1] and the
\* spline is one polynomial piece (the Bezier form below); scipy's BSpline
\* extrapolates that piece outside [0, 1].
Curves ==
    { << <<0, 0>>, <<4, 0>> >>,
      << <<0, 0>>, <<4, 0>>, <<4, 4>> >>,
      << <<0, 0>>, <<4, 0>>, <<4, 4>>, <<0, 4>> >> }

\* Difference of consecutive control points, integer coordinates.
CpDiff(cv, i) == << cv[i + 1][1] - cv[i][1], cv[i + 1][2] - cv[i][2] >>

\* One coordinate of the spline at fixed-point parameter u (a polynomial in
\* u and w = 1 - u of the clamped degree), as a fixed-point number.
SplineCoord(cv, c, u) ==
    LET d == ClipDegree(SplineDegree, Len(cv))
        w == One - u
    IN  IF d = 1 THEN w * cv[1][c] + u * cv[2][c]
        ELSE IF d = 2 THEN
            TruncDiv(w * w * cv[1][c] + 2 * u * w * cv[2][c] + u * u * cv[3][c], Scale)
        ELSE
            TruncDiv(TruncDiv(w * w, Scale) * w * cv[1][c]
                     + 3 * TruncDiv(w * w, Scale) * u * cv[2][c]
                     + 3 * TruncDiv(u * u, Scale) * w * cv[3][c]
                     + TruncDiv(u * u, Scale) * u * cv[4][c], Scale)

\* One coordinate of the derivative spline at fixed-point parameter u.
DerivCoord(cv, c, u) ==
    LET d == ClipDegree(SplineDegree, Len(cv))
        w == One - u
    IN  IF d = 1 THEN ToFixed(CpDiff(cv, 1)[c])
        ELSE IF d = 2 THEN 2 * (w * CpDiff(cv, 1)[c] + u * CpDiff(cv, 2)[c])
        ELSE 3 * TruncDiv(w * w * CpDiff(cv, 1)[c]
                          + 2 * u * w * CpDiff(cv, 2)[c]
                          + u * u * CpDiff(cv, 3)[c], Scale)

get_trajectory_point(cv, u) == << SplineCoord(cv, 1, u), SplineCoord(cv, 2, u) >>

get_trajectory_derivative(cv, u) == << DerivCoord(cv, 1, u), DerivCoord(cv, 2, u) >>

----------------------------------------------------------------------------
(* TargetModel: src/TargetModel.py *)

\* Target speeds the driver is constructed with (fixed point, all > 0).
Velocities == { One, 2 * One }

\* Simulation time steps passed to update_tracker_position (fixed point, > 0).
DeltaTs == { One \div 2, One }

\* np.arctan2(dy, dx) is kept as the unevaluated term of its two arguments.
Arctan2(dy, dx) == [atan2_y |-> dy, atan2_x |-> dx]

NoTelemetry == [valid |-> FALSE]

NoTrajectory == << >>

TargetInit ==
    /\ control_points \in Curves
    /\ target_velocity \in Velocities
    /\ current_parameter = 0
    /\ telemetry = NoTelemetry
    /\ trajectory_points = NoTrajectory

\* Number of parameters get_trajectory samples (line 29).
TrajectorySamples == 100

\* np.linspace(0, 1, TrajectorySamples)
parameter_list ==
    [i \in 1..TrajectorySamples |-> FDiv(ToFixed(i - 1), ToFixed(TrajectorySamples - 1))]

\* get_trajectory (lines 29-31)
get_trajectory ==
    /\ trajectory_points' =
           [i \in DOMAIN parameter_list |->
               get_trajectory_point(control_points, parameter_list[i])]
    /\ UNCHANGED <<control_points, target_velocity, current_parameter, telemetry>>

\* Faulty variant of TelemetryVelocity: the end of the trajectory (u = 1.0) still
\* reports the cruise velocity.
TelemetryVelocityLate(u, v) == IF u <= One THEN v ELSE 0

\* The velocity get_tracker_telemetry reports at parameter u (line 53).
TelemetryVelocity(u, v) == IF u < One THEN v ELSE 0

get_tracker_telemetry ==
    LET target_point == get_trajectory_point(control_points, current_parameter)
        trajectory_derivative ==
            get_trajectory_derivative(control_points, current_parameter)
        target_yaw == Arctan2(trajectory_derivative[2], trajectory_derivative[1])
    IN  /\ telemetry' = [valid |-> TRUE,
                         parameter |-> current_parameter,
                         state |-> << target_point[1], target_point[2], target_yaw >>,
                         velocity |-> TelemetryVelocity(current_parameter, target_velocity)]
        /\ UNCHANGED <<control_points, target_velocity, current_parameter, trajectory_points>>

\* Variant of SettledParameter that settles at the start of the trajectory.
SettledParameterRestart(u) == IF u > One THEN 0 ELSE u

\* The parameter update_tracker_position evaluates the derivative at (lines 64-65).
SettledParameter(u) == IF u > One THEN One ELSE u

\* The parameter after update_tracker_position(delta_t) (lines 64-71).
AdvancedParameter(cv, v, u, delta_t) ==
    LET settled == SettledParameter(u)
        trajectory_derivative == get_trajectory_derivative(cv, settled)
        parameter_delta == FDiv(FMul(v, delta_t), Norm2(trajectory_derivative))
    IN  settled + parameter_delta

update_tracker_position(delta_t) ==
    /\ current_parameter' =
           AdvancedParameter(control_points, target_velocity, current_parameter, delta_t)
    /\ UNCHANGED <<control_points, target_velocity, telemetry, trajectory_points>>

----------------------------------------------------------------------------
(* TrackerModel, problem assembly: src/TrackerModel.py lines 6-179 *)
(*                                                                         *)
(* The symbolic vectors of the source (SX.sym) are evaluated at the        *)
(* integer values held in sym_values.  Headings are multiples of a quarter *)
(* turn and are counted in quarter turns, where cos and sin are exactly    *)
(* 0, 1 or -1; angular velocity is in quarter turns per unit of time.      *)

\* Largest prediction horizon a tracker is constructed with.
MaxHorizon == 2

\* self._sym_state_vector.size()[0]
st_size == 3

\* self._sym_control_vector.size()[0]
ctrl_size == 2

CosQ(theta) == << 1, 0, -1, 0 >>[(theta % 4) + 1]
SinQ(theta) == << 0, 1, 0, -1 >>[(theta % 4) + 1]

\* rhs of the kinematic model (lines 25-32): [v cos(theta), v sin(theta), omega].
kin_function(state, control) ==
    << control[1] * CosQ(state[3]), control[1] * SinQ(state[3]), control[2] >>

VecAdd(a, b) == [i \in DOMAIN a |-> a[i] + b[i]]
VecSub(a, b) == [i \in DOMAIN a |-> a[i] - b[i]]
VecScale(c, a) == [i \in DOMAIN a |-> c * a[i]]

\* Column `step` (counted from 0) of a matrix stored as the sequence of its columns.
Column(m, step) == m[step + 1]

\* Indices (counted from 0) selected by the Python slice start:stop:step of a
\* sequence of length n, in increasing order (0 <= start, step > 0).
RECURSIVE SliceIndices(_, _, _, _)
SliceIndices(n, start, stop, step) ==
    IF start >= Min(stop, n) THEN <<>>
    ELSE <<start>> \o SliceIndices(n, start + step, stop, step)

SeqRange(q) == { q[i] : i \in DOMAIN q }

\* arr[start:stop:step] = value
SliceAssign(arr, start, stop, step, value) ==
    LET hit == SeqRange(SliceIndices(Len(arr), start, stop, step))
    IN  [i \in 1..Len(arr) |-> IF (i - 1) \in hit THEN value ELSE arr[i]]

\* Variant of state_next_euler that drops the time step.
state_next_euler_unscaled(state, control, time_discrete) ==
    VecAdd(state, kin_function(state, control))

\* state + (time_discrete * rhs_value)  (lines 119-122)
state_next_euler(state, control, time_discrete) ==
    VecAdd(state, VecScale(time_discrete, kin_function(state, control)))

\* create_constraints (lines 108-124): the list of N + 1 residual vectors.
ConstraintList(vals, N, time_discrete) ==
    << VecSub(Column(vals.prediction_state, 0), vals.state_init) >>
    \o [k \in 1..N |->
          LET step == k - 1
              state == Column(vals.prediction_state, step)
              state_next == Column(vals.prediction_state, step + 1)
              control == Column(vals.prediction_control, step)
          IN  VecSub(state_next, state_next_euler(state, control, time_discrete))]

\* Entries of the bound vectors: a finite number or an infinity.
Finite(v) == [inf |-> 0, v |-> v]
PosInf == [inf |-> 1, v |-> 0]
NegInf == [inf |-> -1, v |-> 0]
BoundLeq(a, b) ==
    \/ a.inf = -1
    \/ b.inf = 1
    \/ a.inf = 0 /\ b.inf = 0 /\ a.v <= b.v

Zeros(n) == [i \in 1..n |-> Finite(0)]

\* np.min / np.max of a two-element range.
RangeMin(r) == Min(r[1], r[2])
RangeMax(r) == Max(r[1], r[2])

\* Variant of StateSliceStop that forgets the component offset.
StateSliceStopNoOffset(N, offset) == 3 * N + 1

\* Stop of the state-part slices of get_state_limits: (3 * horizon + 1) + offset.
StateSliceStop(N, offset) == (3 * N + 1) + offset

\* One bound vector of get_state_limits (lines 160-169 and 172-177).
BoundVector(N, state_value, linear_value, angular_value) ==
    LET n0 == st_size * (N + 1) + ctrl_size * N
        b0 == Zeros(n0)
        b1 == SliceAssign(b0, 0, StateSliceStop(N, 0), 3, state_value)
        b2 == SliceAssign(b1, 1, StateSliceStop(N, 1), 3, state_value)
        b3 == SliceAssign(b2, 2, StateSliceStop(N, 2), 3, state_value)
        b4 == SliceAssign(b3, st_size * (N + 1) + 0,
                          st_size * (N + 1) + ctrl_size * N, 2, linear_value)
    IN  SliceAssign(b4, st_size * (N + 1) + 1,
                    st_size * (N + 1) + ctrl_size * N, 2, angular_value)

\* Variant of period that uses the unused `offset` of the source.
period_offset == st_size + st_size

\* period = st_size + ctrl_size  (line 81)
period == st_size + ctrl_size

\* self._sym_reference[a:b] as the reference indices read, counted from 0.
ReferenceSlice(N, a, b) == SliceIndices(N * (st_size + ctrl_size), a, b, 1)

\* One stage of create_objective (lines 75-92): which columns and which
\* reference entries it pairs.
StageTerm(N, step) ==
    [state |-> step,
     control |-> step,
     target_state |-> ReferenceSlice(N, step * period, step * period + st_size),
     target_control |-> ReferenceSlice(N, step * period + st_size,
                                       step * period + st_size + ctrl_size)]

\* (x - t)^T W (x - t) for the diagonal weight matrix W = diag(weight).
Quadratic(x, t, weight) ==
    LET d == VecSub(x, t)
        RECURSIVE Sum(_)
        Sum(i) == IF i = 0 THEN 0 ELSE Sum(i - 1) + d[i] * weight[i] * d[i]
    IN  Sum(Len(x))

\* The value of one stage at sym_values; shapes that do not match are an error.
StageValue(vals, term, weight_state, weight_control) ==
    IF Len(term.target_state) # st_size \/ Len(term.target_control) # ctrl_size
    THEN [ok |-> FALSE, v |-> 0]
    ELSE [ok |-> TRUE,
          v |-> Quadratic(Column(vals.prediction_state, term.state),
                          [i \in 1..st_size |-> vals.reference[term.target_state[i] + 1]],
                          weight_state)
                + Quadratic(Column(vals.prediction_control, term.control),
                            [i \in 1..ctrl_size |-> vals.reference[term.target_control[i] + 1]],
                            weight_control)]

RECURSIVE ObjectiveSum(_, _, _, _)
ObjectiveSum(vals, terms, weight_state, weight_control) ==
    IF terms = <<>> THEN [ok |-> TRUE, v |-> 0]
    ELSE LET head == StageValue(vals, terms[Len(terms)], weight_state, weight_control)
             rest == ObjectiveSum(vals, SubSeq(terms, 1, Len(terms) - 1),
                                  weight_state, weight_control)
         IN  [ok |-> head.ok /\ rest.ok, v |-> head.v + rest.v]

\* Inputs of the assembly calls.
TimeDiscretes == { 1, 2 }
LinearRanges == { <<0, 2>>, <<2, 0>> }
AngularRanges == { <<-1, 1>>, <<1, -1>> }
StateWeights == { <<1, 1, 1>>, <<2, 1, 0>> }
ControlWeights == { <<1, 1>> }

\* Values the symbolic vectors are evaluated at.
InitStates == { <<0, 0, 0>>, <<1, 0, 1>> }
ControlSamples == { <<1, 0>>, <<2, 1>> }

\* The Euler prediction replayed from s0 with the given controls: states 0..N.
RECURSIVE ReplayStates(_, _, _, _)
ReplayStates(s0, controls, time_discrete, k) ==
    IF k = 0 THEN << s0 >>
    ELSE LET prev == ReplayStates(s0, controls, time_discrete, k - 1)
         IN  Append(prev, VecAdd(prev[k],
                 VecScale(time_discrete, kin_function(prev[k], controls[k]))))

\* A state sequence with component c of state k (counted from 0) moved by one.
Perturbed(states, k, c) ==
    [states EXCEPT ![k + 1] = [@ EXCEPT ![c] = @ + 1]]

\* Decision vectors: an Euler-consistent prediction, or one off it in one entry.
DecisionStates(s0, controls, N) ==
    LET consistent == { ReplayStates(s0, controls, dt, N) : dt \in TimeDiscretes }
    IN  consistent \cup { Perturbed(p, k, c) : p \in consistent, k \in 0..N, c \in 1..st_size }

\* The reference block: entry i (counted from 0) has the value i % 3.
ReferenceBlock(N) == [i \in 1..(N * (st_size + ctrl_size)) |-> (i - 1) % 3]

NothingBuilt == [op |-> "none"]

BuilderInit ==
    /\ horizon \in 1..MaxHorizon
    /\ sym_values \in
         UNION { { [state_init |-> s0, prediction_control |-> c, prediction_state |-> p,
                    reference |-> ReferenceBlock(horizon)] :
                     p \in UNION { DecisionStates(s1, c, horizon) : s1 \in InitStates } } :
                 s0 \in InitStates, c \in [1..horizon -> ControlSamples] }
    /\ built = NothingBuilt

create_objective(weight_state, weight_control) ==
    LET terms == [k \in 1..horizon |-> StageTerm(horizon, k - 1)]
    IN  /\ built' = [op |-> "create_objective",
                     terms |-> terms,
                     value |-> ObjectiveSum(sym_values, terms, weight_state, weight_control)]
        /\ UNCHANGED <<horizon, sym_values>>

create_constraints(time_discrete) ==
    /\ built' = [op |-> "create_constraints",
                 time_discrete |-> time_discrete,
                 constraints |-> ConstraintList(sym_values, horizon, time_discrete)]
    /\ UNCHANGED <<horizon, sym_values>>

get_global_limits ==
    /\ built' = [op |-> "get_global_limits",
                 lower_bounds |-> Zeros(st_size * (horizon + 1)),
                 upper_bounds |-> Zeros(st_size * (horizon + 1))]
    /\ UNCHANGED <<horizon, sym_values>>

get_state_limits(linear_velocity, angular_velocity) ==
    /\ built' = [op |-> "get_state_limits",
                 linear_velocity |-> linear_velocity,
                 angular_velocity |-> angular_velocity,
                 lower_bounds |-> BoundVector(horizon, NegInf,
                                              Finite(RangeMin(linear_velocity)),
                                              Finite(RangeMin(angular_velocity))),
                 upper_bounds |-> BoundVector(horizon, PosInf,
                                              Finite(RangeMax(linear_velocity)),
                                              Finite(RangeMax(angular_velocity)))]
    /\ UNCHANGED <<horizon, sym_values>>

----------------------------------------------------------------------------
(* TrackerModel, history: src/TrackerModel.py lines 46-53 and 270-334 *)

\* Labels of the tracker instances of a run.
Trackers == { "tracker_1", "tracker_2" }

\* Largest total number of storage_* calls of a run.
MaxRecords == 3

\* Arguments of the storage_* calls: states are 3x1 columns, controls are 1x2
\* row blocks, predictions are matrices of one common shape (sequences of rows).
StateEntries == { <<0, 0, 0>>, <<1, 2, 3>> }
ControlEntries == { << <<1, 0>> >>, << <<2, 1>> >> }
PredictionEntries == { << <<0, 1>> >>, << <<2, 3>> >> }

EmptyStorage == [states |-> <<>>, control |-> <<>>, predictions |-> <<>>]

NothingExported == [op |-> "none"]

HistoryInit ==
    /\ storage = [tr \in Trackers |-> EmptyStorage]
    /\ exported = NothingExported

RECURSIVE SumOver(_, _)
SumOver(f, S) ==
    IF S = {} THEN 0
    ELSE LET x == CHOOSE y \in S : TRUE IN f[x] + SumOver(f, S \ {x})

\* Number of entries held by all logs of all trackers.
TotalRecords ==
    SumOver([tr \in Trackers |-> Len(storage[tr].states) + Len(storage[tr].control)
                                  + Len(storage[tr].predictions)], Trackers)

\* Variant of list_append that inserts at the front.
list_insert_front(log, entry) == << entry >> \o log

\* list.append(entry)
list_append(log, entry) == Append(log, entry)

storage_state(tr, state) ==
    /\ TotalRecords < MaxRecords
    /\ storage' = [storage EXCEPT ![tr].states = list_append(@, state)]
    /\ UNCHANGED exported

storage_control(tr, control) ==
    /\ TotalRecords < MaxRecords
    /\ storage' = [storage EXCEPT ![tr].control = list_append(@, control)]
    /\ UNCHANGED exported

storage_predictions(tr, predictions) ==
    /\ TotalRecords < MaxRecords
    /\ storage' = [storage EXCEPT ![tr].predictions = list_append(@, predictions)]
    /\ UNCHANGED exported

Raised(error) == [raised |-> error]
Returned(array) == [raised |-> "none", array |-> array]

\* Variant of np_concatenate_axis1 that returns an empty array for an empty list.
np_concatenate_axis1_lenient(arrays) ==
    Returned([r \in 1..st_size |-> [j \in 1..Len(arrays) |-> arrays[j][r]]])

\* np.concatenate(arrays, axis=1) of n columns: the matrix (sequence of rows)
\* whose column j is arrays[j]; numpy raises ValueError for an empty list.
np_concatenate_axis1(arrays) ==
    IF arrays = <<>> THEN Raised("ValueError")
    ELSE Returned([r \in 1..st_size |-> [j \in 1..Len(arrays) |-> arrays[j][r]]])

RECURSIVE ConcatRows(_)
ConcatRows(arrays) ==
    IF arrays = <<>> THEN <<>>
    ELSE ConcatRows(SubSeq(arrays, 1, Len(arrays) - 1)) \o arrays[Len(arrays)]

\* np.concatenate(arrays, axis=0): the rows of all blocks, one block after the
\* other; numpy raises ValueError for an empty list.
np_concatenate_axis0(arrays) ==
    IF arrays = <<>> THEN Raised("ValueError")
    ELSE Returned(ConcatRows(arrays))

\* np.stack(arrays, axis=2): element [i][j][k] is arrays[k][i][j]; numpy raises
\* ValueError for an empty list.
np_stack_axis2(arrays) ==
    IF arrays = <<>> THEN Raised("ValueError")
    ELSE Returned([i \in 1..Len(arrays[1]) |->
                     [j \in 1..Len(arrays[1][i]) |->
                        [k \in 1..Len(arrays) |-> arrays[k][i][j]]]])

\* The outcome of a get_*_storage call as held in `exported`.
Outcome(op, tr, result) == [op |-> op, tracker |-> tr] @@ result

\* Variant of get_state_storage that empties the log it has exported.
get_state_storage_draining(tr) ==
    /\ exported' = Outcome("get_state_storage", tr, np_concatenate_axis1(storage[tr].states))
    /\ storage' = [storage EXCEPT ![tr].states = << >>]

get_state_storage(tr) ==
    /\ exported' = Outcome("get_state_storage", tr, np_concatenate_axis1(storage[tr].states))
    /\ UNCHANGED storage

get_control_storage(tr) ==
    /\ exported' = Outcome("get_control_storage", tr, np_concatenate_axis0(storage[tr].control))
    /\ UNCHANGED storage

get_predictions_storage(tr) ==
    /\ exported' = Outcome("get_predictions_storage", tr,
                           np_stack_axis2(storage[tr].predictions))
    /\ UNCHANGED storage

----------------------------------------------------------------------------
(* TDoACalculation: src/TDoACalculation.py *)
(*                                                                         *)
(* A float of this component is a set: {n} is the fixed-point number n and *)
(* {} is NaN, so that NaN propagates through every operation as in numpy   *)
(* (which warns and goes on, raising nothing).                             *)

Num(n) == { n }
NaN == {}
IsNum(a) == a # {}
Val(a) == CHOOSE n \in a : TRUE

NAdd(a, b) == { x + y : x \in a, y \in b }
NSub(a, b) == { x - y : x \in a, y \in b }
NNeg(a) == { -x : x \in a }
NMul(a, b) == { FMul(x, y) : x \in a, y \in b }
\* The only zero divisor of this component is the norm of a zero vector, which
\* divides that vector: 0 / 0 is NaN.
NDiv(a, b) == { FDiv(x, y) : x \in a, y \in { z \in b : z # 0 } }
\* np.sqrt: NaN for a negative argument.
NSqrt(a) == { ISqrt(x * Scale) : x \in { z \in a : z >= 0 } }

\* 0.5 * x
Half(x) == TruncDiv(x, 2)

\* Series t + t^3/3! + ... (first = t, n = 1) or 1 + t^2/2! + ... (first = 1,
\* n = 0) in fixed point, for t >= 0.
RECURSIVE PowerSeries(_, _, _)
PowerSeries(term, t, n) ==
    IF term = 0 \/ n > 40 THEN 0
    ELSE term + PowerSeries(TruncDiv(FMul(FMul(term, t), t), (n + 1) * (n + 2)), t, n + 2)

\* np.sinh, np.cosh
Sinh(t) == Sgn(t) * PowerSeries(Abs(t), Abs(t), 1)
Cosh(t) == PowerSeries(One, Abs(t), 0)

\* Largest discretization parameter the solver is constructed with.
ParameterLimit == 2 * One

RECURSIVE ArcsinhSearch(_, _, _)
ArcsinhSearch(y, lo, hi) ==
    IF lo >= hi THEN lo
    ELSE LET mid == (lo + hi + 1) \div 2
         IN  IF Sinh(mid) <= y THEN ArcsinhSearch(y, mid, hi)
             ELSE ArcsinhSearch(y, lo, mid - 1)

\* np.arcsinh: the inverse of sinh, to the last fixed-point unit.
Arcsinh(y) == Sgn(y) * ArcsinhSearch(Abs(y), 0, ParameterLimit + One)

\* Largest sample count the solver is constructed with.
MaxSamples == 4

\* Constructor arguments.
ParameterMaxima == { One, ParameterLimit }
SampleCounts == 2..MaxSamples

\* Variant of hyperbolic_discretization with equal increments of the parameter
\* itself instead of its sinh.
hyperbolic_discretization_linear(parameter_range, samples) ==
    LET t_min == Min(parameter_range[1], parameter_range[2])
        t_max == Max(parameter_range[1], parameter_range[2])
        delta == TruncDiv(t_max - t_min, samples - 1)
    IN  [k \in 1..samples |-> t_min + (k - 1) * delta]

\* hyperbolic_discretization (lines 140-146)
hyperbolic_discretization(parameter_range, samples) ==
    LET y_pos_min == Sinh(Min(parameter_range[1], parameter_range[2]))
        y_pos_max == Sinh(Max(parameter_range[1], parameter_range[2]))
        delta == TruncDiv(y_pos_max - y_pos_min, samples - 1)
    IN  [k \in 1..samples |-> Arcsinh(y_pos_min + (k - 1) * delta)]

\* Positions of target and trackers (integer coordinates, in metres).
Positions ==
    { <<-5, 0>>, <<5, 0>>, <<20, 0>>, <<0, 20>>, <<3, 4>>, <<-5, -5>>, <<1, 1>>, <<5, 5>> }

PosFixed(pos) == << ToFixed(pos[1]), ToFixed(pos[2]) >>

\* find_range_diff (lines 104-105)
find_range_diff(pos_target, pos_tracker_1, pos_tracker_2) ==
    Norm2(VecSub(PosFixed(pos_target), PosFixed(pos_tracker_1)))
    - Norm2(VecSub(PosFixed(pos_target), PosFixed(pos_tracker_2)))

\* Variant of calculate_semiaxis that returns the semi-axes in the other order.
calculate_semiaxis_swapped(range_difference, tracker_distance) ==
    LET a_square == FMul(Half(range_difference), Half(range_difference))
        b_square == FMul(Half(tracker_distance), Half(tracker_distance)) - a_square
    IN  << b_square, a_square >>

\* calculate_semiaxis (lines 122-124): <<a^2, b^2>>
calculate_semiaxis(range_difference, tracker_distance) ==
    LET a_square == FMul(Half(range_difference), Half(range_difference))
        b_square == FMul(Half(tracker_distance), Half(tracker_distance)) - a_square
    IN  << a_square, b_square >>

\* Variant of BranchSign with the two branches exchanged.
BranchSignSwapped(fist_tracker_nearest) == IF fist_tracker_nearest THEN -1 ELSE 1

\* Sign applied to solution_x (lines 169-170).
BranchSign(fist_tracker_nearest) == IF fist_tracker_nearest THEN 1 ELSE -1

\* np.sqrt(a_square) * np.cosh(t)  (line 166)
LocalX(a_square, t) == NMul(NSqrt(Num(a_square)), Num(Cosh(t)))

\* np.sqrt(b_square) * np.sinh(t)  (line 167)
LocalY(b_square, t) == NMul(NSqrt(Num(b_square)), Num(Sinh(t)))

\* hyperbolic_solution (lines 166-172): <<solution_x, solution_y>>
hyperbolic_solution(parameters, a_square, b_square, fist_tracker_nearest) ==
    << [k \in DOMAIN parameters |->
          IF BranchSign(fist_tracker_nearest) = 1 THEN LocalX(a_square, parameters[k])
          ELSE NNeg(LocalX(a_square, parameters[k]))],
       [k \in DOMAIN parameters |-> LocalY(b_square, parameters[k])] >>

\* The product of a 2x2 matrix (sequence of rows) and a 2-vector.
MatVec2(M, v) ==
    [r \in 1..2 |-> NAdd(NMul(M[r][1], v[1]), NMul(M[r][2], v[2]))]

\* Variant of PerpendicularAxis turned the other way (+90 degrees).
PerpendicularAxisCCW(v_x) == << NNeg(v_x[2]), v_x[1] >>

\* v_y = [v_x[1], -v_x[0]]  (line 68)
PerpendicularAxis(v_x) == << v_x[2], NNeg(v_x[1]) >>

\* The two matrices find_transformation_matrix builds (lines 61-83), each a
\* sequence of rows: T_final (inertial to hyperbolic frame) and T_inverse.
transformation_matrices(point_1, point_2) ==
    LET p1 == PosFixed(point_1)
        p2 == PosFixed(point_2)
        origin == << Half(p1[1] + p2[1]), Half(p1[2] + p2[2]) >>
        v_raw == VecSub(p1, origin)
        v_x == [c \in 1..2 |-> NDiv(Num(v_raw[c]), Num(Norm2(v_raw)))]
        v_y == PerpendicularAxis(v_x)
        R == << << v_x[1], v_y[1] >>, << v_x[2], v_y[2] >> >>
        Rt == << << R[1][1], R[2][1] >>, << R[1][2], R[2][2] >> >>
        T == [r \in 1..2 |-> NNeg(MatVec2(R, << Num(origin[1]), Num(origin[2]) >>)[r])]
        shift == [r \in 1..2 |-> NNeg(MatVec2(Rt, T)[r])]
    IN  [T_final |-> << << R[1][1], R[1][2], T[1] >>,
                        << R[2][1], R[2][2], T[2] >>,
                        << Num(0), Num(0), Num(One) >> >>,
         T_inverse |-> << << Rt[1][1], Rt[1][2], shift[1] >>,
                          << Rt[2][1], Rt[2][2], shift[2] >>,
                          << Num(0), Num(0), Num(One) >> >>]

\* find_transformation_matrix (line 84) returns T_inverse.
find_transformation_matrix(point_1, point_2) ==
    transformation_matrices(point_1, point_2).T_inverse

\* convert2inertial (lines 33-45): <<x_transformed, y_transformed>>
convert2inertial(T, x_series, y_series) ==
    LET Row(r, k) == NAdd(NAdd(NMul(T[r][1], x_series[k]), NMul(T[r][2], y_series[k])),
                          NMul(T[r][3], Num(One)))
    IN  << [k \in DOMAIN x_series |-> Row(1, k)], [k \in DOMAIN x_series |-> Row(2, k)] >>

NothingSolved == [op |-> "none"]

\* __init__ (line 15)
TDoAInit ==
    /\ table_args \in [parameter_max : ParameterMaxima, discretization_step : SampleCounts]
    /\ hyperbolic_parameters =
           hyperbolic_discretization(<< -table_args.parameter_max, table_args.parameter_max >>,
                                     table_args.discretization_step)
    /\ solve_args \in [pos_target : Positions, pos_tracker_1 : Positions,
                        pos_tracker_2 : Positions]
    /\ solution = NothingSolved

\* find_hyperbolic_solution (lines 191-199); the locals are kept with the result.
\* No statement of the class raises: every call returns its pair of arrays.
find_hyperbolic_solution(pos_target, pos_tracker_1, pos_tracker_2) ==
    LET range_diff == find_range_diff(pos_target, pos_tracker_1, pos_tracker_2)
        semiaxis == calculate_semiaxis(range_diff,
                        Norm2(VecSub(PosFixed(pos_tracker_1), PosFixed(pos_tracker_2))))
        local == hyperbolic_solution(hyperbolic_parameters, semiaxis[1], semiaxis[2],
                                     range_diff < 0)
        transform_matrix == find_transformation_matrix(pos_tracker_1, pos_tracker_2)
        inertial == convert2inertial(transform_matrix, local[1], local[2])
    IN  /\ solution' = [op |-> "find_hyperbolic_solution",
                        raised |-> "none",
                        T_final |-> transformation_matrices(pos_tracker_1,
                                                            pos_tracker_2).T_final,
                        transform_matrix |-> transform_matrix,
                        pos_target |-> pos_target,
                        pos_tracker_1 |-> pos_tracker_1,
                        pos_tracker_2 |-> pos_tracker_2,
                        range_diff |-> range_diff,
                        a_square |-> semiaxis[1],
                        b_square |-> semiaxis[2],
                        solution_x |-> local[1],
                        solution_y |-> local[2],
                        x_inertial |-> inertial[1],
                        y_inertial |-> inertial[2]]
        /\ UNCHANGED <<table_args, hyperbolic_parameters, solve_args>>

----------------------------------------------------------------------------
(* Constructors: TrajectoryGenerator.generate_bspline, TargetModel.__init__, *)
(* TrackerModel.__init__                                                     *)

\* Largest number of control points a curve is built from.
MaxControlPoints == 6

\* Control-point arrays passed to the constructors: the first n points of two
\* paths, n = 0 .. MaxControlPoints.
ControlPointPaths ==
    { [i \in 1..MaxControlPoints |-> << i - 1, 0 >>],
      [i \in 1..MaxControlPoints |-> << 2 * (i - 1), (i - 1) * (i - 1) >>] }

ControlPointArrays ==
    { SubSeq(path, 1, n) : path \in ControlPointPaths, n \in 0..MaxControlPoints }

\* Degrees generate_bspline is called with (its default, and the constructor's
\* argument, is SplineDegree).
RequestedDegrees == -1..(SplineDegree + 2)

\* Python's [value] * n: the empty list for n <= 0.
ListRepeat(value, n) == [i \in 1..Max(n, 0) |-> value]

\* Variant of KnotIntegers whose integer run stops one short (range(count - degree)).
KnotIntegersShortRun(count, degree) ==
    ListRepeat(0, degree)
    \o [i \in 1..Max(count - degree, 0) |-> i - 1]
    \o ListRepeat(count - degree, degree)

\* The integer knot vector of lines 33-34.
KnotIntegers(count, degree) ==
    ListRepeat(0, degree)
    \o [i \in 1..Max(count - degree + 1, 0) |-> i - 1]
    \o ListRepeat(count - degree, degree)

\* knot_vector / (count - degree)  (line 37), in fixed point.
KnotNormalized(count, degree) ==
    LET knots == KnotIntegers(count, degree)
    IN  [i \in DOMAIN knots |-> FDiv(ToFixed(knots[i]), ToFixed(count - degree))]

Constructed(object) == [raised |-> "none", object |-> object]

\* generate_bspline (lines 26-43).  si.BSpline rejects a negative degree and
\* spline.derivative(1) rejects a spline of degree 0, both with ValueError.
generate_bspline(cv, requested_degree) ==
    LET count == Len(cv)
        degree == ClipDegree(requested_degree, count)
    IN  IF degree < 1 THEN Raised("ValueError")
        ELSE Constructed([control_vertices |-> cv,
                          degree |-> degree,
                          knot_integers |-> KnotIntegers(count, degree),
                          knot_vector |-> KnotNormalized(count, degree)])

\* TrajectoryGenerator.__init__ (lines 9-10)
TrajectoryGenerator(cv) == generate_bspline(cv, SplineDegree)

\* Target speeds the TargetModel constructor is called with.
ConstructorVelocities == { -One, 0, One, 2 * One }

\* TargetModel.__init__ (lines 9-18): the arguments are stored as given; the
\* only failure is that of the TrajectoryGenerator.
TargetModel(cv, velocity) ==
    LET trajectory == TrajectoryGenerator(cv)
    IN  IF trajectory.raised # "none" THEN trajectory
        ELSE Constructed([control_points |-> cv,
                          target_velocity |-> velocity,
                          current_parameter |-> 0,
                          trajectory |-> trajectory.object])

\* Horizons the TrackerModel constructor is called with.
ConstructorHorizons == 0..MaxHorizon

\* TrackerModel.__init__ (lines 7-53): the symbolic vectors are kept by their
\* shapes; a horizon of 0 gives empty control and reference vectors.
TrackerModel(label, prediction_horizon) ==
    Constructed([label |-> label,
                 horizon |-> prediction_horizon,
                 reference_size |-> prediction_horizon * (st_size + ctrl_size),
                 prediction_control_shape |-> << ctrl_size, prediction_horizon >>,
                 prediction_state_shape |-> << st_size, prediction_horizon + 1 >>,
                 storage |-> EmptyStorage])

NothingConstructed == [op |-> "none"]

ConstructInit == constructed = NothingConstructed

new_generate_bspline(cv, requested_degree) ==
    constructed' = [op |-> "generate_bspline", cv |-> cv,
                    requested_degree |-> requested_degree]
                   @@ generate_bspline(cv, requested_degree)

new_TargetModel(cv, velocity) ==
    constructed' = [op |-> "TargetModel", cv |-> cv, velocity |-> velocity]
                   @@ TargetModel(cv, velocity)

new_TrackerModel(label, prediction_horizon) ==
    constructed' = [op |-> "TrackerModel", prediction_horizon |-> prediction_horizon]
                   @@ TrackerModel(label, prediction_horizon)

----------------------------------------------------------------------------
(* get_trajectory_part: src/utility.py lines 83-127 *)

\* Largest number of steps a reference is sliced for.
MaxSteps == 4

StepCounts == 0..MaxSteps

\* Largest number of steps the target makes before the reference is sliced.
MaxApproach == 3

\* Variant of TerminalStep that also freezes a step at exactly 1.0.
TerminalStepAtEnd(parameter) == parameter >= One

\* terminal_step = parameter > 1.0  (line 103)
TerminalStep(parameter) == parameter > One

\* The value of `parameter` at the top of loop iteration st (0-based), lines
\* 101-121.
RECURSIVE LoopParameter(_, _, _, _, _)
LoopParameter(cv, parameter, st, v, delta_t) ==
    IF st = 0 THEN parameter
    ELSE LET previous == LoopParameter(cv, parameter, st - 1, v, delta_t)
             limited == IF TerminalStep(previous) THEN One ELSE previous
             trajectory_derivative == get_trajectory_derivative(cv, limited)
             parameter_delta_delta ==
                 FDiv(FMul(v, delta_t), Norm2(trajectory_derivative))
         IN  limited + parameter_delta_delta

\* The two entries appended by loop iteration st (lines 103-126).
StepEntries(cv, parameter, st, v, delta_t) ==
    LET at_top == LoopParameter(cv, parameter, st, v, delta_t)
        terminal_step == TerminalStep(at_top)
        limited == IF terminal_step THEN One ELSE at_top
        target_point == get_trajectory_point(cv, limited)
        trajectory_derivative == get_trajectory_derivative(cv, limited)
        target_yaw == Arctan2(trajectory_derivative[2], trajectory_derivative[1])
    IN  << << target_point[1], target_point[2], target_yaw >>,
           << IF terminal_step THEN 0 ELSE v, 0 >> >>

\* get_trajectory_part (lines 99-127): the list `vector`.
RECURSIVE get_trajectory_part(_, _, _, _, _)
get_trajectory_part(cv, parameter, steps, v, delta_t) ==
    IF steps <= 0 THEN << >>
    ELSE get_trajectory_part(cv, parameter, steps - 1, v, delta_t)
         \o StepEntries(cv, parameter, steps - 1, v, delta_t)

NothingSliced == [op |-> "none"]

SliceInit ==
    /\ sliced = NothingSliced
    /\ advance_count = 0

\* A call get_trajectory_part(target.trajectory, target.current_parameter,
\* steps, target.target_velocity, delta_t) by the owner of the target.
take_trajectory_part(steps, delta_t) ==
    /\ sliced = NothingSliced
    /\ sliced' = [op |-> "get_trajectory_part",
                  cv |-> control_points,
                  parameter |-> current_parameter,
                  steps |-> steps,
                  target_velocity |-> target_velocity,
                  delta_t |-> delta_t,
                  vector |-> get_trajectory_part(control_points, current_parameter, steps,
                                                 target_velocity, delta_t)]
    /\ advance_count' = 0
    /\ UNCHANGED target_vars

----------------------------------------------------------------------------
(* Idle values of the other components *)

SliceIdle == SliceInit

SystemIdle == calls = 0

ConstructIdle == ConstructInit

BuilderIdle ==
    /\ horizon = 1
    /\ sym_values = <<>>
    /\ built = NothingBuilt

HistoryIdle == HistoryInit

TDoAIdle ==
    /\ table_args = <<>>
    /\ hyperbolic_parameters = <<>>
    /\ solve_args = <<>>
    /\ solution = NothingSolved

TargetIdle ==
    /\ control_points = << <<0, 0>>, <<4, 0>> >>
    /\ target_velocity = One
    /\ current_parameter = 0
    /\ telemetry = NoTelemetry
    /\ trajectory_points = NoTrajectory

----------------------------------------------------------------------------
(* TDoAPlot: src/TDoAPlot.py lines 9-131                                    *)
(*                                                                         *)
(* The figure is kept as the data last handed to each of its artists.      *)

\* Largest positive trajectory_trace a plot is constructed with.
MaxTrace == 2

\* Largest number of add_solution calls made on a plot.
MaxAdds == 4

\* trajectory_trace arguments: -1 (never trim), 0 and the positive lengths.
TraceLengths == -1..MaxTrace

\* Arguments of add_solution: << target, tracker_position_1, tracker_position_2 >>.
PlotPositions ==
    { << <<20, 0>>, <<-5, 0>>, <<5, 0>> >>,
      << <<0, 20>>, <<3, 4>>, <<5, 5>> >>,
      << <<20, 0>>, <<3, 4>>, <<5, 0>> >> }

\* Arguments the plot constructs its solver with (line 19).  The source passes
\* HyperbolicParameterMax = 4.0 and HyperbolicDiscStepsNum = 1000; the model
\* builds the largest table of the solver model instead.
PlotTableArgs == [parameter_max |-> ParameterLimit, discretization_step |-> MaxSamples]

NoPlot == [constructed |-> FALSE]

PlotIdle == plot = NoPlot /\ added = << >>

\* The attributes __init__ sets (lines 20-30) and the data of the artists it
\* creates (lines 48-56, 89-97); raised is the outcome of the last add_solution.
TDoAPlot(trajectory_trace) ==
    [constructed |-> TRUE,
     trajectory_trace |-> trajectory_trace,
     data_accum_x |-> << >>,
     data_accum_y |-> << >>,
     target_trace |-> << >>,
     tracker_1_trace |-> << >>,
     tracker_2_trace |-> << >>,
     solution_line |-> << << >>, << >> >>,
     plt_tracker_1 |-> <<0, 0>>,
     plt_tracker_2 |-> <<0, 0>>,
     plt_target_trace |-> << >>,
     plt_tracker_1_trace |-> << >>,
     plt_tracker_2_trace |-> << >>,
     plt_target |-> << >>,
     raised |-> "none"]

\* __init__ (lines 13-30)
PlotInit ==
    /\ plot \in { TDoAPlot(trajectory_trace) : trajectory_trace \in TraceLengths }
    /\ added = << >>
    /\ table_args = PlotTableArgs
    /\ hyperbolic_parameters =
           hyperbolic_discretization(<< -PlotTableArgs.parameter_max,
                                        PlotTableArgs.parameter_max >>,
                                     PlotTableArgs.discretization_step)
    /\ solve_args = << >>
    /\ solution = NothingSolved

\* Variant of Trimmed that drops the newest entry instead of the oldest.
TrimmedNewest(trace, trajectory_trace) ==
    IF Len(trace) > trajectory_trace /\ trajectory_trace # -1
    THEN SubSeq(trace, 1, Len(trace) - 1) ELSE trace

\* A trace after the test of lines 111-116: pop(0) when it is longer than
\* trajectory_trace and trajectory_trace is not -1.
Trimmed(trace, trajectory_trace) ==
    IF Len(trace) > trajectory_trace /\ trajectory_trace # -1
    THEN Tail(trace) ELSE trace

\* trace[-1] of a non-empty list.
Last(trace) == trace[Len(trace)]

\* add_solution (lines 101-131).  With an empty target trace, line 119 raises
\* IndexError after lines 102-118 have run.
add_solution(target, tracker_position_1, tracker_position_2) ==
    LET target_trace ==
            Trimmed(Append(plot.target_trace, target), plot.trajectory_trace)
        tracker_1_trace ==
            Trimmed(Append(plot.tracker_1_trace, tracker_position_1),
                    plot.trajectory_trace)
        tracker_2_trace ==
            Trimmed(Append(plot.tracker_2_trace, tracker_position_2),
                    plot.trajectory_trace)
        failed == target_trace = << >>
    IN  /\ find_hyperbolic_solution(target, tracker_position_1, tracker_position_2)
        /\ plot' =
               [plot EXCEPT
                   !.data_accum_x = @ \o solution'.x_inertial,
                   !.data_accum_y = @ \o solution'.y_inertial,
                   !.target_trace = target_trace,
                   !.tracker_1_trace = tracker_1_trace,
                   !.tracker_2_trace = tracker_2_trace,
                   !.solution_line = << solution'.x_inertial, solution'.y_inertial >>,
                   !.plt_target = IF failed THEN @ ELSE Last(target_trace),
                   !.plt_tracker_1 = IF failed THEN @ ELSE Last(tracker_1_trace),
                   !.plt_tracker_2 = IF failed THEN @ ELSE Last(tracker_2_trace),
                   !.plt_target_trace = IF failed THEN @ ELSE target_trace,
                   !.plt_tracker_1_trace = IF failed THEN @ ELSE tracker_1_trace,
                   !.plt_tracker_2_trace = IF failed THEN @ ELSE tracker_2_trace,
                   !.raised = IF failed THEN "IndexError" ELSE "none"]
        /\ added' = Append(added, << target, tracker_position_1, tracker_position_2 >>)

----------------------------------------------------------------------------
(* Specifications *)

OthersUnchangedByTarget ==
    UNCHANGED <<builder_vars, history_vars, tdoa_vars, construct_vars,
                slice_vars, system_vars, plot_vars>>

TargetTelemetry == get_tracker_telemetry /\ OthersUnchangedByTarget

TargetAdvance ==
    /\ \E delta_t \in DeltaTs : update_tracker_position(delta_t)
    /\ OthersUnchangedByTarget

InitTarget == TargetInit /\ BuilderIdle /\ HistoryIdle /\ TDoAIdle /\ ConstructIdle
        /\ SliceIdle /\ SystemIdle /\ PlotIdle

NextTarget == TargetTelemetry \/ TargetAdvance

SpecTarget == InitTarget /\ [][NextTarget]_vars

\* The simulation loop calls update_tracker_position in every one of its steps.
SpecTargetLive == SpecTarget /\ WF_vars(TargetAdvance)

OthersUnchangedByBuilder ==
    UNCHANGED <<target_vars, history_vars, tdoa_vars, construct_vars,
                slice_vars, system_vars, plot_vars>>

BuilderObjective ==
    /\ \E ws \in StateWeights, wc \in ControlWeights : create_objective(ws, wc)
    /\ OthersUnchangedByBuilder

BuilderConstraints ==
    /\ \E dt \in TimeDiscretes : create_constraints(dt)
    /\ OthersUnchangedByBuilder

BuilderGlobalLimits == get_global_limits /\ OthersUnchangedByBuilder

BuilderStateLimits ==
    /\ \E lv \in LinearRanges, av \in AngularRanges : get_state_limits(lv, av)
    /\ OthersUnchangedByBuilder

InitBuilder == TargetIdle /\ BuilderInit /\ HistoryIdle /\ TDoAIdle /\ ConstructIdle
        /\ SliceIdle /\ SystemIdle /\ PlotIdle

NextBuilder ==
    BuilderObjective \/ BuilderConstraints \/ BuilderGlobalLimits \/ BuilderStateLimits

SpecBuilder == InitBuilder /\ [][NextBuilder]_vars

OthersUnchangedByHistory ==
    UNCHANGED <<target_vars, builder_vars, tdoa_vars, construct_vars,
                slice_vars, system_vars, plot_vars>>

HistoryRecordState(tr, state) == storage_state(tr, state) /\ OthersUnchangedByHistory

HistoryRecordControl(tr, control) == storage_control(tr, control) /\ OthersUnchangedByHistory

HistoryRecordPrediction(tr, predictions) ==
    storage_predictions(tr, predictions) /\ OthersUnchangedByHistory

HistoryExportStates(tr) == get_state_storage(tr) /\ OthersUnchangedByHistory

HistoryExportControls(tr) == get_control_storage(tr) /\ OthersUnchangedByHistory

HistoryExportPredictions(tr) == get_predictions_storage(tr) /\ OthersUnchangedByHistory

InitHistory == TargetIdle /\ BuilderIdle /\ HistoryInit /\ TDoAIdle /\ ConstructIdle
        /\ SliceIdle /\ SystemIdle /\ PlotIdle

NextHistory ==
    \E tr \in Trackers :
        \/ \E state \in StateEntries : HistoryRecordState(tr, state)
        \/ \E control \in ControlEntries : HistoryRecordControl(tr, control)
        \/ \E predictions \in PredictionEntries : HistoryRecordPrediction(tr, predictions)
        \/ HistoryExportStates(tr)
        \/ HistoryExportControls(tr)
        \/ HistoryExportPredictions(tr)

SpecHistory == InitHistory /\ [][NextHistory]_vars

OthersUnchangedByTDoA ==
    UNCHANGED <<target_vars, builder_vars, history_vars, construct_vars,
                slice_vars, system_vars, plot_vars>>

TDoASolve ==
    /\ find_hyperbolic_solution(solve_args.pos_target, solve_args.pos_tracker_1,
                                solve_args.pos_tracker_2)
    /\ OthersUnchangedByTDoA

InitTDoA == TargetIdle /\ BuilderIdle /\ HistoryIdle /\ TDoAInit /\ ConstructIdle
        /\ SliceIdle /\ SystemIdle /\ PlotIdle

NextTDoA == TDoASolve

SpecTDoA == InitTDoA /\ [][NextTDoA]_vars

OthersUnchangedByConstruct ==
    UNCHANGED <<target_vars, builder_vars, history_vars, tdoa_vars, slice_vars, system_vars, plot_vars>>

ConstructCurve ==
    /\ \E cv \in ControlPointArrays, degree \in RequestedDegrees :
           new_generate_bspline(cv, degree)
    /\ OthersUnchangedByConstruct

ConstructTarget ==
    /\ \E cv \in ControlPointArrays, velocity \in ConstructorVelocities :
           new_TargetModel(cv, velocity)
    /\ OthersUnchangedByConstruct

ConstructTracker ==
    /\ \E label \in Trackers, prediction_horizon \in ConstructorHorizons :
           new_TrackerModel(label, prediction_horizon)
    /\ OthersUnchangedByConstruct

InitConstruct ==
    /\ TargetIdle /\ BuilderIdle /\ HistoryIdle /\ TDoAIdle /\ ConstructInit /\ SliceIdle
    /\ SystemIdle /\ PlotIdle

NextConstruct == ConstructCurve \/ ConstructTarget \/ ConstructTracker

SpecConstruct == InitConstruct /\ [][NextConstruct]_vars

OthersUnchangedBySlice ==
    UNCHANGED <<builder_vars, history_vars, tdoa_vars, construct_vars, system_vars, plot_vars>>

\* The target moves before the reference is sliced.
SliceApproach ==
    /\ sliced = NothingSliced
    /\ advance_count < MaxApproach
    /\ \E delta_t \in DeltaTs : update_tracker_position(delta_t)
    /\ advance_count' = advance_count + 1
    /\ UNCHANGED sliced
    /\ OthersUnchangedBySlice

SliceTake ==
    /\ \E steps \in StepCounts, delta_t \in DeltaTs : take_trajectory_part(steps, delta_t)
    /\ OthersUnchangedBySlice

\* The target moves on with the time step the reference was sliced for.
SliceFollow ==
    /\ sliced # NothingSliced
    /\ advance_count + 1 < sliced.steps
    /\ update_tracker_position(sliced.delta_t)
    /\ advance_count' = advance_count + 1
    /\ UNCHANGED sliced
    /\ OthersUnchangedBySlice

SliceTelemetry ==
    /\ sliced # NothingSliced
    /\ get_tracker_telemetry
    /\ UNCHANGED slice_vars
    /\ OthersUnchangedBySlice

InitSlice ==
    /\ TargetInit /\ BuilderIdle /\ HistoryIdle /\ TDoAIdle /\ ConstructIdle /\ SliceInit
    /\ SystemIdle /\ PlotIdle

NextSlice == SliceApproach \/ SliceTake \/ SliceFollow \/ SliceTelemetry

SpecSlice == InitSlice /\ [][NextSlice]_vars

OthersUnchangedByPlot ==
    UNCHANGED <<target_vars, builder_vars, history_vars, construct_vars, slice_vars,
                system_vars>>

PlotAdd ==
    /\ Len(added) < MaxAdds
    /\ \E args \in PlotPositions : add_solution(args[1], args[2], args[3])
    /\ OthersUnchangedByPlot

InitPlot == TargetIdle /\ BuilderIdle /\ HistoryIdle /\ PlotInit /\ ConstructIdle
        /\ SliceIdle /\ SystemIdle

NextPlot == PlotAdd

SpecPlot == InitPlot /\ [][NextPlot]_vars

----------------------------------------------------------------------------
(* One target, the two trackers and one solver, called by their owner *)

\* Largest number of calls the owner makes.
MaxCalls == 2

\* Values the symbolic vectors of the trackers' problem are evaluated at.
SystemSymValues ==
    LET controls == [k \in 1..1 |-> <<1, 0>>]
    IN  [state_init |-> <<0, 0, 0>>,
         prediction_control |-> controls,
         prediction_state |-> ReplayStates(<<0, 0, 0>>, controls, 1, 1),
         reference |-> ReferenceBlock(1)]

InitSystem ==
    /\ TargetIdle
    /\ horizon = 1 /\ sym_values = SystemSymValues /\ built = NothingBuilt
    /\ HistoryInit
    /\ table_args = [parameter_max |-> One, discretization_step |-> 2]
    /\ hyperbolic_parameters = hyperbolic_discretization(<< -One, One >>, 2)
    /\ solve_args \in [pos_target : { <<20, 0>>, <<0, 20>> },
                        pos_tracker_1 : { <<-5, 0>> }, pos_tracker_2 : { <<5, 0>> }]
    /\ solution = NothingSolved
    /\ ConstructIdle /\ SliceIdle /\ PlotIdle
    /\ calls = 0

\* One more call by the owner; the objects of the other classes are left alone.
Call(others) ==
    /\ calls < MaxCalls
    /\ calls' = calls + 1
    /\ UNCHANGED others
    /\ UNCHANGED <<construct_vars, slice_vars, plot_vars>>

SystemTelemetry ==
    get_tracker_telemetry /\ Call(<<builder_vars, history_vars, tdoa_vars>>)

SystemTrajectory ==
    get_trajectory /\ Call(<<builder_vars, history_vars, tdoa_vars>>)

SystemAdvance ==
    /\ \E delta_t \in DeltaTs : update_tracker_position(delta_t)
    /\ Call(<<builder_vars, history_vars, tdoa_vars>>)

SystemObjective ==
    /\ \E ws \in StateWeights, wc \in ControlWeights : create_objective(ws, wc)
    /\ Call(<<target_vars, history_vars, tdoa_vars>>)

SystemConstraints ==
    /\ \E dt \in TimeDiscretes : create_constraints(dt)
    /\ Call(<<target_vars, history_vars, tdoa_vars>>)

SystemGlobalLimits ==
    get_global_limits /\ Call(<<target_vars, history_vars, tdoa_vars>>)

SystemStateLimits ==
    /\ \E lv \in LinearRanges, av \in AngularRanges : get_state_limits(lv, av)
    /\ Call(<<target_vars, history_vars, tdoa_vars>>)

SystemRecordState(tr) ==
    /\ \E state \in StateEntries : storage_state(tr, state)
    /\ Call(<<target_vars, builder_vars, tdoa_vars>>)

SystemRecordControl(tr) ==
    /\ \E control \in ControlEntries : storage_control(tr, control)
    /\ Call(<<target_vars, builder_vars, tdoa_vars>>)

SystemRecordPrediction(tr) ==
    /\ \E predictions \in PredictionEntries : storage_predictions(tr, predictions)
    /\ Call(<<target_vars, builder_vars, tdoa_vars>>)

SystemExportStates(tr) ==
    get_state_storage(tr) /\ Call(<<target_vars, builder_vars, tdoa_vars>>)

SystemExportControls(tr) ==
    get_control_storage(tr) /\ Call(<<target_vars, builder_vars, tdoa_vars>>)

SystemExportPredictions(tr) ==
    get_predictions_storage(tr) /\ Call(<<target_vars, builder_vars, tdoa_vars>>)

SystemSolve ==
    /\ find_hyperbolic_solution(solve_args.pos_target, solve_args.pos_tracker_1,
                                solve_args.pos_tracker_2)
    /\ Call(<<target_vars, builder_vars, history_vars>>)

NextSystem ==
    \/ SystemTelemetry \/ SystemTrajectory \/ SystemAdvance
    \/ SystemObjective \/ SystemConstraints \/ SystemGlobalLimits \/ SystemStateLimits
    \/ \E tr \in Trackers :
          \/ SystemRecordState(tr) \/ SystemRecordControl(tr) \/ SystemRecordPrediction(tr)
          \/ SystemExportStates(tr) \/ SystemExportControls(tr)
          \/ SystemExportPredictions(tr)
    \/ SystemSolve

SpecSystem == InitSystem /\ [][NextSystem]_vars

----------------------------------------------------------------------------
(* Properties of the problem assembly, checked under SpecBuilder *)

\* The one-step kinematic prediction of the specification:
\* x + dt v cos(theta), y + dt v sin(theta), theta + dt omega.
C4_Predict(x, u, dt) ==
    << x[1] + dt * u[1] * CosQ(x[3]), x[2] + dt * u[1] * SinQ(x[3]), x[3] + dt * u[2] >>

\* State k (counted from 0) of the prediction replayed from the initial state.
RECURSIVE C4_Replayed(_, _)
C4_Replayed(k, dt) ==
    IF k = 0 THEN sym_values.state_init
    ELSE C4_Predict(C4_Replayed(k - 1, dt), sym_values.prediction_control[k], dt)

\* C4: create_constraints returns exactly N+1 three-component residuals:
\* residual 0 is predictedState[0] - initialState and residual k (1 <= k <= N) is
\* predictedState[k] minus the one-step prediction from predictedState[k-1] and
\* control[k-1]; when all residuals are zero every predicted state 0..N equals
\* the replayed prediction; get_global_limits returns zero lower and upper
\* limits of length 3*(N+1).
C4_EqualityConstraints ==
    /\ built.op = "create_constraints" =>
         LET g == built.constraints
             dt == built.time_discrete
             X == sym_values.prediction_state
             U == sym_values.prediction_control
         IN  /\ Len(g) = horizon + 1
             /\ \A r \in 1..Len(g) : Len(g[r]) = 3
             /\ \A c \in 1..3 : g[1][c] = X[1][c] - sym_values.state_init[c]
             /\ \A k \in 1..horizon : \A c \in 1..3 :
                    g[k + 1][c] = X[k + 1][c] - C4_Predict(X[k], U[k], dt)[c]
             /\ (\A r \in 1..Len(g) : g[r] = <<0, 0, 0>>) =>
                    \A k \in 0..horizon : X[k + 1] = C4_Replayed(k, dt)
    /\ built.op = "get_global_limits" =>
         /\ Len(built.lower_bounds) = 3 * (horizon + 1)
         /\ Len(built.upper_bounds) = 3 * (horizon + 1)
         /\ \A i \in 1..(3 * (horizon + 1)) :
                built.lower_bounds[i] = Finite(0) /\ built.upper_bounds[i] = Finite(0)

\* Constraints built with time step 2 over the longest horizon, all residuals
\* zero, for a prediction that actually moves.
C4_Witness ==
    /\ built.op = "create_constraints"
    /\ horizon = MaxHorizon
    /\ built.time_discrete = 2
    /\ \A r \in 1..Len(built.constraints) : built.constraints[r] = <<0, 0, 0>>
    /\ sym_values.prediction_state[horizon + 1] # sym_values.prediction_state[1]

\* C5: get_state_limits returns lower and upper vectors of length
\* 3*(N+1) + 2*N; each of the first 3*(N+1) entries is -infinity in the lower
\* and +infinity in the upper vector; entry 3*(N+1)+2k is bounded by the min/max
\* of linear_velocity and entry 3*(N+1)+2k+1 by the min/max of angular_velocity
\* for every k in 0..N-1; lower <= upper elementwise.
C5_StateLimits ==
    built.op = "get_state_limits" =>
        LET lo == built.lower_bounds
            up == built.upper_bounds
            n == 3 * (horizon + 1) + 2 * horizon
            lv == built.linear_velocity
            av == built.angular_velocity
        IN  /\ Len(lo) = n /\ Len(up) = n
            /\ \A i \in 1..(3 * (horizon + 1)) : lo[i] = NegInf /\ up[i] = PosInf
            /\ \A k \in 0..(horizon - 1) :
                   /\ lo[3 * (horizon + 1) + 2 * k + 1] = Finite(Min(lv[1], lv[2]))
                   /\ up[3 * (horizon + 1) + 2 * k + 1] = Finite(Max(lv[1], lv[2]))
                   /\ lo[3 * (horizon + 1) + 2 * k + 2] = Finite(Min(av[1], av[2]))
                   /\ up[3 * (horizon + 1) + 2 * k + 2] = Finite(Max(av[1], av[2]))
            /\ \A i \in 1..n : BoundLeq(lo[i], up[i])

\* Bounds built over the longest horizon from ranges given as (max, min).
C5_Witness ==
    /\ built.op = "get_state_limits"
    /\ horizon = MaxHorizon
    /\ built.linear_velocity = <<2, 0>>
    /\ built.angular_velocity = <<1, -1>>

\* Number of stage slots of the objective that read reference index i.
C6_Reads(i) ==
    Cardinality({ k \in 1..Len(built.terms) :
                    i \in SeqRange(built.terms[k].target_state) })
    + Cardinality({ k \in 1..Len(built.terms) :
                      i \in SeqRange(built.terms[k].target_control) })

\* C6: create_objective sums exactly N stage terms; stage k pairs predicted
\* state k with reference entries [5k, 5k+3) and control k with reference entries
\* [5k+3, 5k+5); every reference entry 0..5N-1 is read exactly once, nothing
\* outside the block is read, and predicted state N is in no stage.
C6_Objective ==
    built.op = "create_objective" =>
        /\ Len(built.terms) = horizon
        /\ \A k \in 0..(horizon - 1) :
               /\ built.terms[k + 1].state = k
               /\ built.terms[k + 1].control = k
               /\ built.terms[k + 1].target_state = << 5 * k, 5 * k + 1, 5 * k + 2 >>
               /\ built.terms[k + 1].target_control = << 5 * k + 3, 5 * k + 4 >>
        /\ \A i \in 0..(5 * horizon - 1) : C6_Reads(i) = 1
        /\ \A i \in (5 * horizon)..(6 * horizon + 6) : C6_Reads(i) = 0
        /\ \A k \in 1..Len(built.terms) : built.terms[k].state # horizon
        /\ built.value.ok

\* An objective built over the longest horizon whose last stage is not zero.
C6_Witness ==
    /\ built.op = "create_objective"
    /\ horizon = MaxHorizon
    /\ Len(built.terms) = MaxHorizon
    /\ built.value.v > 0

----------------------------------------------------------------------------
(* Properties of the history logs, checked under SpecHistory *)

LogNames == { "states", "control", "predictions" }

\* Every entry held before the step is still held, at the same place.
C7_Kept ==
    \A tr \in Trackers : \A log \in LogNames :
        /\ Len(storage'[tr][log]) >= Len(storage[tr][log])
        /\ SubSeq(storage'[tr][log], 1, Len(storage[tr][log])) = storage[tr][log]

\* Log `log` of tracker tr gained `entry` at its end and nothing else changed.
C7_Gained(tr, log, entry) ==
    /\ Len(storage'[tr][log]) = Len(storage[tr][log]) + 1
    /\ storage'[tr][log][Len(storage'[tr][log])] = entry
    /\ \A t2 \in Trackers : \A l2 \in LogNames :
           (t2 # tr \/ l2 # log) => storage'[t2][l2] = storage[t2][l2]

\* The array returned lists the entries of the log in the order recorded.
C7_InOrder(tr) ==
    /\ exported'.op = "get_state_storage" /\ exported'.raised = "none" =>
           \A r \in 1..3 :
               /\ Len(exported'.array[r]) = Len(storage[tr].states)
               /\ \A j \in 1..Len(storage[tr].states) :
                      exported'.array[r][j] = storage[tr].states[j][r]
    /\ exported'.op = "get_control_storage" /\ exported'.raised = "none" =>
           /\ Len(exported'.array) = Len(storage[tr].control)
           /\ \A j \in 1..Len(storage[tr].control) :
                  exported'.array[j] = storage[tr].control[j][1]
    /\ exported'.op = "get_predictions_storage" /\ exported'.raised = "none" =>
           \A i \in 1..Len(exported'.array) : \A j \in 1..Len(exported'.array[i]) :
               /\ Len(exported'.array[i][j]) = Len(storage[tr].predictions)
               /\ \A k \in 1..Len(storage[tr].predictions) :
                      exported'.array[i][j][k] = storage[tr].predictions[k][i][j]

\* C7: the three per-tracker logs are append-only: each storage_* call lengthens
\* exactly its own log by one entry placed at the end, no stored entry is
\* changed, removed or reordered by any call, and the get_*_storage calls return
\* the entries of their log in the order recorded.
C7_AppendOnly ==
    [][/\ C7_Kept
       /\ \A tr \in Trackers :
            /\ \A state \in StateEntries :
                   HistoryRecordState(tr, state) => C7_Gained(tr, "states", state)
            /\ \A control \in ControlEntries :
                   HistoryRecordControl(tr, control) => C7_Gained(tr, "control", control)
            /\ \A predictions \in PredictionEntries :
                   HistoryRecordPrediction(tr, predictions) =>
                       C7_Gained(tr, "predictions", predictions)
            /\ (HistoryExportStates(tr) \/ HistoryExportControls(tr)
                \/ HistoryExportPredictions(tr)) =>
                   storage' = storage /\ C7_InOrder(tr)]_vars

\* Two different states were recorded on one tracker and exported in that order.
C7_Witness ==
    /\ exported.op = "get_state_storage"
    /\ exported.raised = "none"
    /\ storage[exported.tracker].states = << <<1, 2, 3>>, <<0, 0, 0>> >>
    /\ exported.array = << <<1, 0>>, <<2, 0>>, <<3, 0>> >>

\* The export call on tracker tr failed: an error, no array, logs as before.
C8_Failed(tr, log) ==
    /\ exported'.raised = "ValueError"
    /\ "array" \notin DOMAIN exported'
    /\ storage' = storage
    /\ storage'[tr][log] = <<>>

\* C8: a get_*_storage call made before any storage_* call on the corresponding
\* log fails with an error raised at the call, returns no array and leaves the
\* logs unchanged (the log concerned stays empty).
C8_ExportBeforeRecord ==
    [][\A tr \in Trackers :
         /\ HistoryExportStates(tr) /\ storage[tr].states = <<>> =>
                C8_Failed(tr, "states")
         /\ HistoryExportControls(tr) /\ storage[tr].control = <<>> =>
                C8_Failed(tr, "control")
         /\ HistoryExportPredictions(tr) /\ storage[tr].predictions = <<>> =>
                C8_Failed(tr, "predictions")]_vars

\* An export of states failed on a tracker all of whose logs are empty.
C8_Witness ==
    /\ exported.op = "get_state_storage"
    /\ exported.raised = "ValueError"
    /\ storage[exported.tracker] = EmptyStorage

----------------------------------------------------------------------------
(* Properties of the constructors, checked under SpecConstruct *)

\* C14: construction rejects invalid input and yields no object: a curve from
\* fewer than 2 control points, a TargetModel with target_velocity <= 0 and a
\* TrackerModel with a non-positive horizon each fail at construction.
C14_InvalidInputRejected ==
    /\ (/\ constructed.op \in { "generate_bspline", "TargetModel" }
        /\ Len(constructed.cv) < 2) => constructed.raised # "none"
    /\ (/\ constructed.op = "TargetModel"
        /\ constructed.velocity <= 0) => constructed.raised # "none"
    /\ (/\ constructed.op = "TrackerModel"
        /\ constructed.prediction_horizon <= 0) => constructed.raised # "none"

\* The degree the specification asks for: the requested one clamped to
\* [1, count - 1].
C15_Clamped(requested, count) ==
    IF requested < 1 THEN 1 ELSE IF requested > count - 1 THEN count - 1 ELSE requested

\* C15: for every control-point count >= 2 and requested degree the curve is
\* built with degree d clamped to [1, count-1] and a knot vector of length
\* count+d+1 that is non-decreasing and consists of d zeros, the integers
\* 0..count-d and d copies of count-d, all divided by count-d: its first d+1
\* entries are 0, its last d+1 entries are 1 and every entry is in [0, 1].
C15_KnotVector ==
    (/\ constructed.op = "generate_bspline"
     /\ Len(constructed.cv) >= 2) =>
        /\ constructed.raised = "none"
        /\ LET count == Len(constructed.cv)
               d == constructed.object.degree
               integers == constructed.object.knot_integers
               knots == constructed.object.knot_vector
               n == count + d + 1
           IN  /\ d = C15_Clamped(constructed.requested_degree, count)
               /\ Len(integers) = n
               /\ Len(knots) = n
               /\ \A i \in 1..d : integers[i] = 0
               /\ \A i \in 0..(count - d) : integers[d + 1 + i] = i
               /\ \A i \in 1..d : integers[count + 1 + i] = count - d
               /\ \A i \in 1..n : knots[i] * (count - d) <= ToFixed(integers[i])
               /\ \A i \in 1..n : (knots[i] + 1) * (count - d) > ToFixed(integers[i])
               /\ \A i \in 2..n : knots[i - 1] <= knots[i]
               /\ \A i \in 1..(d + 1) : knots[i] = 0
               /\ \A i \in (n - d)..n : knots[i] = One
               /\ \A i \in 1..n : 0 <= knots[i] /\ knots[i] <= One

\* Six control points at the default degree: three interior spans.
C15_Witness ==
    /\ constructed.op = "generate_bspline"
    /\ Len(constructed.cv) = 6
    /\ constructed.requested_degree = SplineDegree
    /\ constructed.raised = "none"
    /\ constructed.object.knot_integers = << 0, 0, 0, 0, 1, 2, 3, 3, 3, 3 >>
    /\ constructed.object.knot_vector[5] > 0
    /\ constructed.object.knot_vector[6] < One

----------------------------------------------------------------------------
(* Properties of get_trajectory_part, checked under SpecSlice *)

Sliced == sliced.op = "get_trajectory_part"

\* The advancing parameter of the specification before step st: it starts at
\* start_u, is frozen at 1.0 once it has exceeded 1.0, and advances by
\* target_velocity * dt / |derivative|.
RECURSIVE C16_Advancing(_)
C16_Advancing(st) ==
    IF st = 0 THEN sliced.parameter
    ELSE LET before == C16_Advancing(st - 1)
             u == IF before > One THEN One ELSE before
         IN  u + FDiv(FMul(sliced.target_velocity, sliced.delta_t),
                      Norm2(get_trajectory_derivative(sliced.cv, u)))

\* The pose (x, y, heading) of the curve at parameter u.
C16_Pose(u) ==
    << get_trajectory_point(sliced.cv, u)[1], get_trajectory_point(sliced.cv, u)[2],
       Arctan2(get_trajectory_derivative(sliced.cv, u)[2],
               get_trajectory_derivative(sliced.cv, u)[1]) >>

C16_State(st) == sliced.vector[2 * st + 1]

C16_Control(st) == sliced.vector[2 * st + 2]

\* C16: the slice has exactly 2*steps entries alternating state, control; a
\* step whose advancing parameter has exceeded 1.0 is evaluated at exactly 1.0
\* and has linear velocity 0, every other step has linear velocity
\* target_velocity, every step has angular velocity 0, and once a step is
\* frozen every later step is frozen too and has the same state.
C16_SliceShape ==
    Sliced =>
        /\ Len(sliced.vector) = 2 * sliced.steps
        /\ \A st \in 0..(sliced.steps - 1) :
               /\ Len(C16_State(st)) = 3
               /\ Len(C16_Control(st)) = 2
               /\ C16_Control(st)[2] = 0
               /\ IF C16_Advancing(st) > One
                  THEN /\ C16_State(st) = C16_Pose(One)
                       /\ C16_Control(st)[1] = 0
                       /\ \A later \in (st + 1)..(sliced.steps - 1) :
                              /\ C16_Control(later)[1] = 0
                              /\ C16_State(later) = C16_State(st)
                  ELSE /\ C16_State(st) = C16_Pose(C16_Advancing(st))
                       /\ C16_Control(st)[1] = sliced.target_velocity

\* A slice that starts inside the curve, has a step at exactly 1.0 with the
\* cruise velocity and is frozen for the two steps after it.
C16_Witness ==
    /\ Sliced
    /\ sliced.steps = 4
    /\ sliced.parameter < One
    /\ C16_Advancing(1) = One
    /\ C16_Control(0)[1] = sliced.target_velocity
    /\ C16_Control(1)[1] = sliced.target_velocity
    /\ C16_Control(2)[1] = 0
    /\ C16_Control(3)[1] = 0
    /\ C16_State(2) = C16_State(3)
    /\ C16_State(0) # C16_State(1)

\* C18: for a slice started at u0 in [0,1], the k-th state and linear velocity
\* of the slice are the pose and the velocity the telemetry reports on the
\* target that was at u0 when the slice was taken and has advanced k times
\* since with the same time step.
C18_SliceFollowsTarget ==
    [][(/\ SliceTelemetry
        /\ sliced.parameter >= 0
        /\ sliced.parameter <= One
        /\ advance_count < sliced.steps) =>
           /\ telemetry'.state = C16_State(advance_count)
           /\ telemetry'.velocity = C16_Control(advance_count)[1]]_vars

----------------------------------------------------------------------------
(* Frame properties, checked under SpecSystem *)

\* What the objects store: the target's attributes, the trackers' horizon and
\* logs, and the solver's table.
C17_Stored ==
    <<control_points, target_velocity, current_parameter, horizon, storage,
      hyperbolic_parameters>>

\* The calls that only read.
C17_Reader ==
    \/ SystemTelemetry \/ SystemTrajectory \/ SystemSolve
    \/ SystemObjective \/ SystemConstraints \/ SystemGlobalLimits \/ SystemStateLimits
    \/ \E tr \in Trackers :
          SystemExportStates(tr) \/ SystemExportControls(tr) \/ SystemExportPredictions(tr)

\* C17: the path parameter changes only in update_tracker_position, a log only
\* in its own storage_* call on its own tracker, the discretization table and
\* the spline's control points never; get_tracker_telemetry, get_trajectory,
\* find_hyperbolic_solution, create_objective, create_constraints, the limits
\* and the get_*_storage accessors leave all stored state unchanged.
C17_Frame ==
    [][/\ current_parameter' # current_parameter => SystemAdvance
       /\ \A tr \in Trackers :
              /\ storage'[tr].states # storage[tr].states => SystemRecordState(tr)
              /\ storage'[tr].control # storage[tr].control => SystemRecordControl(tr)
              /\ storage'[tr].predictions # storage[tr].predictions
                     => SystemRecordPrediction(tr)
       /\ hyperbolic_parameters' = hyperbolic_parameters
       /\ control_points' = control_points
       /\ target_velocity' = target_velocity
       /\ horizon' = horizon
       /\ C17_Reader => UNCHANGED C17_Stored]_vars

\* A log of tracker 1 has been exported after a record call, and tracker 2
\* still has empty logs.
C17_Witness ==
    /\ calls = 2
    /\ exported.op = "get_state_storage"
    /\ exported.tracker = "tracker_1"
    /\ exported.raised = "none"
    /\ Len(storage["tracker_1"].states) = 1
    /\ storage["tracker_2"] = EmptyStorage

----------------------------------------------------------------------------
(* Properties of TDoACalculation, checked under SpecTDoA *)

\* Exact squared distance of two positions (integer coordinates).
DistSq(p, q) == (p[1] - q[1]) * (p[1] - q[1]) + (p[2] - q[2]) * (p[2] - q[2])

Solved == solution.op = "find_hyperbolic_solution"

DistinctTrackers == solution.pos_tracker_1 # solution.pos_tracker_2

\* C9: for every target and every pair of distinct tracker positions the
\* returned branch opens toward the tracker nearer to the target: range_diff < 0
\* exactly when tracker 1 is nearer, every local-frame x is >= 0 when
\* range_diff < 0 and <= 0 when range_diff >= 0; trackers (-5,0), (5,0) and
\* target (20,0) give only points on tracker 2's side (inertial x > 0).
C9_BranchTowardNearer ==
    Solved /\ DistinctTrackers =>
        LET x == solution.solution_x
        IN  /\ solution.range_diff < 0 <=>
                   DistSq(solution.pos_target, solution.pos_tracker_1)
                       < DistSq(solution.pos_target, solution.pos_tracker_2)
            /\ Len(x) = Len(hyperbolic_parameters)
            /\ solution.range_diff < 0 =>
                   \A k \in DOMAIN x : IsNum(x[k]) /\ Val(x[k]) >= 0
            /\ solution.range_diff >= 0 =>
                   \A k \in DOMAIN x : IsNum(x[k]) /\ Val(x[k]) <= 0
            /\ (/\ solution.pos_tracker_1 = <<-5, 0>>
                /\ solution.pos_tracker_2 = <<5, 0>>
                /\ solution.pos_target = <<20, 0>>) =>
                   \A k \in DOMAIN x :
                       /\ IsNum(solution.x_inertial[k])
                       /\ Val(solution.x_inertial[k]) > 0

\* The example of C9 solved: three points, all strictly on tracker 2's side.
C9_Witness ==
    /\ Solved
    /\ solution.pos_tracker_1 = <<-5, 0>>
    /\ solution.pos_tracker_2 = <<5, 0>>
    /\ solution.pos_target = <<20, 0>>
    /\ solution.range_diff > 0
    /\ Len(solution.solution_x) = 3
    /\ \A k \in 1..3 : Val(solution.solution_x[k]) < 0 /\ Val(solution.x_inertial[k]) > 0

\* (sinh(max) - sinh(min)) / (sample_count - 1) for the constructor arguments.
C11_SinhIncrement ==
    TruncDiv(Sinh(table_args.parameter_max) - Sinh(-table_args.parameter_max),
             table_args.discretization_step - 1)

\* Rounding allowance of the table, in fixed-point units: one unit per division
\* and per sample, and the spacing of sinh values on the grid, cosh(max) units.
C11_Rounding ==
    table_args.discretization_step + Cosh(table_args.parameter_max) \div Scale + 1

\* C11: the table built at construction has exactly sample_count entries, starts
\* at -parameter_max, ends at +parameter_max, is strictly increasing and has the
\* same sinh increment (sinh(max) - sinh(min))/(sample_count - 1) between every
\* adjacent pair (to rounding); a solve returns one point per table entry, in
\* table order.
C11_DiscretizationTable ==
    LET t == hyperbolic_parameters
        n == table_args.discretization_step
    IN  /\ Len(t) = n
        /\ Abs(t[1] + table_args.parameter_max) <= C11_Rounding
        /\ Abs(t[n] - table_args.parameter_max) <= C11_Rounding
        /\ \A i \in 2..n :
               /\ t[i] > t[i - 1]
               /\ Abs(Sinh(t[i]) - Sinh(t[i - 1]) - C11_SinhIncrement) <= C11_Rounding
        /\ Solved =>
               /\ Len(solution.x_inertial) = n
               /\ Len(solution.y_inertial) = n
               /\ \A k \in 1..n :
                      LET image == convert2inertial(solution.transform_matrix,
                                                    << solution.solution_x[k] >>,
                                                    << solution.solution_y[k] >>)
                      IN  /\ solution.x_inertial[k] = image[1][1]
                          /\ solution.y_inertial[k] = image[2][1]
               /\ \A k \in 2..n :
                      IsNum(solution.solution_y[k]) =>
                          Val(solution.solution_y[k - 1]) <= Val(solution.solution_y[k])

\* A table of four entries whose parameter increments differ, after a solve
\* that returned four distinct points.
C11_Witness ==
    /\ Solved
    /\ table_args.discretization_step = 4
    /\ Len(hyperbolic_parameters) = 4
    /\ hyperbolic_parameters[3] - hyperbolic_parameters[2]
           > hyperbolic_parameters[2] - hyperbolic_parameters[1] + C11_Rounding
    /\ Len(solution.x_inertial) = 4
    /\ \A k \in 1..4 : IsNum(solution.solution_y[k])
    /\ \A k \in 2..4 : Val(solution.solution_y[k - 1]) < Val(solution.solution_y[k])

\* The image of point p (a pair of floats) under the homogeneous matrix T.
C12_Apply(T, p) ==
    LET image == convert2inertial(T, << p[1] >>, << p[2] >>)
    IN  << image[1][1], image[2][1] >>

\* Rounding allowance of the transforms at inertial point p (integer metres), in
\* fixed-point units: one unit in the last place of each matrix entry for every
\* metre it multiplies, over the two entries of a row and the two matrices
\* applied, and a few units for the products.
C12_Rounding(p) ==
    4 * (Abs(p[1]) + Abs(p[2])
         + Abs(solution.pos_tracker_1[1] + solution.pos_tracker_2[1])
         + Abs(solution.pos_tracker_1[2] + solution.pos_tracker_2[2])) + 8

\* q (a pair of floats) is point p (integer metres) to within the allowance.
C12_Near(q, p) ==
    /\ IsNum(q[1]) /\ IsNum(q[2])
    /\ Abs(Val(q[1]) - ToFixed(p[1])) <= C12_Rounding(p)
    /\ Abs(Val(q[2]) - ToFixed(p[2])) <= C12_Rounding(p)

\* C12: for two distinct tracker positions the inertial-to-local matrix built in
\* find_transformation_matrix and the matrix it returns are mutual inverses
\* (a point taken to the local frame and back is the original point), and the
\* returned matrix maps the local origin to the trackers' midpoint and the
\* local point (d/2, 0), d the tracker distance, to tracker 1.
C12_TransformRoundTrip ==
    Solved /\ DistinctTrackers =>
        LET p1 == solution.pos_tracker_1
            p2 == solution.pos_tracker_2
            d == Norm2(VecSub(PosFixed(p1), PosFixed(p2)))
            origin == C12_Apply(solution.transform_matrix, << Num(0), Num(0) >>)
        IN  /\ \A p \in { solution.pos_target, p1, p2 } :
                   C12_Near(C12_Apply(solution.transform_matrix,
                                      C12_Apply(solution.T_final,
                                                << Num(ToFixed(p[1])), Num(ToFixed(p[2])) >>)),
                            p)
            /\ IsNum(origin[1]) /\ IsNum(origin[2])
            /\ Abs(2 * Val(origin[1]) - ToFixed(p1[1] + p2[1])) <= 2 * C12_Rounding(<<0, 0>>)
            /\ Abs(2 * Val(origin[2]) - ToFixed(p1[2] + p2[2])) <= 2 * C12_Rounding(<<0, 0>>)
            /\ C12_Near(C12_Apply(solution.transform_matrix, << Num(Half(d)), Num(0) >>), p1)

\* The matrices of an oblique tracker pair, which move the target: its local
\* image is a different point, away from both local axes.
C12_Witness ==
    /\ Solved
    /\ solution.pos_tracker_1 = <<3, 4>>
    /\ solution.pos_tracker_2 = <<-5, 0>>
    /\ solution.pos_target = <<0, 20>>
    /\ LET local == C12_Apply(solution.T_final, << Num(0), Num(ToFixed(20)) >>)
       IN  /\ IsNum(local[1]) /\ IsNum(local[2])
           /\ Abs(Val(local[1])) > One
           /\ Abs(Val(local[2])) > One
           /\ Abs(Val(local[2]) - ToFixed(20)) > One

\* C13: a solve with coincident tracker positions, or with a geometry whose b^2
\* is not positive, fails with an IllFormedGeometry error and hands no point
\* sequence back.
C13_IllFormedRejected ==
    (/\ Solved
     /\ \/ solution.pos_tracker_1 = solution.pos_tracker_2
        \/ solution.b_square <= 0) =>
        /\ solution.raised = "IllFormedGeometry"
        /\ solution.x_inertial = << >>
        /\ solution.y_inertial = << >>

\* The target lies on the line through the two (distinct) trackers, outside the
\* segment between them or at one of its ends.
C20_OnLineOutside ==
    LET t == solution.pos_target
        p1 == solution.pos_tracker_1
        p2 == solution.pos_tracker_2
    IN  /\ (p2[1] - p1[1]) * (t[2] - p1[2]) = (p2[2] - p1[2]) * (t[1] - p1[1])
        /\ (t[1] - p1[1]) * (t[1] - p2[1]) + (t[2] - p1[2]) * (t[2] - p2[2]) >= 0

\* C20: inside a solve |range_diff| <= distance(tracker 1, tracker 2), so b^2 is
\* never negative, and b^2 = 0 exactly when the target is on the line through
\* the trackers outside or at the ends of the segment between them.
C20_SemiaxisNonNegative ==
    Solved =>
        /\ Abs(solution.range_diff)
               <= Norm2(VecSub(PosFixed(solution.pos_tracker_1),
                               PosFixed(solution.pos_tracker_2)))
        /\ solution.b_square >= 0
        /\ DistinctTrackers => (solution.b_square = 0 <=> C20_OnLineOutside)

\* Twice the product of (point k - midpoint of the trackers) with the tracker
\* segment: zero exactly on the perpendicular bisector.
C10_OffBisector(k) ==
    LET p1 == solution.pos_tracker_1
        p2 == solution.pos_tracker_2
    IN  (2 * Val(solution.x_inertial[k]) - ToFixed(p1[1] + p2[1])) * (p1[1] - p2[1])
        + (2 * Val(solution.y_inertial[k]) - ToFixed(p1[2] + p2[2])) * (p1[2] - p2[2])

\* Rounding allowance, in fixed-point units, for the distance of point k from
\* the bisector: one unit in the last place of each entry of the transform,
\* scaled by the magnitudes it multiplies, and of each product.
C10_Rounding(k) ==
    LET p1 == solution.pos_tracker_1
        p2 == solution.pos_tracker_2
    IN  2 * (Abs(Val(solution.solution_y[k])) \div Scale
             + 4 * (Abs(p1[1] + p2[1]) + Abs(p1[2] + p2[2])) + 6)

----------------------------------------------------------------------------
(* Properties of TargetModel, checked under SpecTarget *)

C3_TelemetryVelocity ==
    [][TargetTelemetry =>
          /\ current_parameter' = current_parameter
          /\ telemetry'.valid
          /\ telemetry'.parameter = current_parameter
          /\ current_parameter < One => telemetry'.velocity = target_velocity
          /\ current_parameter >= One => telemetry'.velocity = 0]_vars

\* A telemetry read taken with the parameter at exactly 1.0 reported velocity 0.
C3_Witness ==
    /\ telemetry.valid
    /\ telemetry.parameter = One
    /\ current_parameter = One
    /\ telemetry.velocity = 0

\* The target is where get_tracker_telemetry reports velocity 0.
C19_Stopped == TelemetryVelocity(current_parameter, target_velocity) = 0

\* C19: repeated update_tracker_position calls eventually bring the target to
\* a state where the telemetry reports velocity 0; from then on every later
\* read reports velocity 0; before it the parameter strictly increases with
\* each call.
C19_EventuallyStopped ==
    /\ <>C19_Stopped
    /\ [][C19_Stopped => C19_Stopped']_vars
    /\ [][TargetTelemetry /\ C19_Stopped => telemetry'.velocity = 0]_vars
    /\ [][TargetAdvance /\ ~C19_Stopped => current_parameter' > current_parameter]_vars

\* The target has passed the end of a curve and a read after it reported 0.
C19_Witness ==
    /\ current_parameter > One
    /\ telemetry.valid
    /\ telemetry.parameter = current_parameter
    /\ telemetry.velocity = 0
    /\ Len(control_points) = 4

----------------------------------------------------------------------------
(* Properties of TDoAPlot, checked under SpecPlot *)

\* Number of entries a trace holds after the add_solution calls made so far.
C21_Kept ==
    IF plot.trajectory_trace = -1 THEN Len(added)
    ELSE Min(Len(added), plot.trajectory_trace)

\* The positions (component c of the arguments) of the most recent calls, in
\* call order.
C21_Recent(c) ==
    [i \in 1..C21_Kept |-> added[Len(added) - C21_Kept + i][c]]

\* C21: with trajectory_trace = K >= 1 the three traces have the same length
\* min(number of add_solution calls, K) and hold the positions of the most
\* recent calls in call order; with K = -1 they are never trimmed and hold the
\* positions of all calls.
C21_TraceWindow ==
    (plot.trajectory_trace >= 1 \/ plot.trajectory_trace = -1) =>
        /\ Len(plot.target_trace) = C21_Kept
        /\ Len(plot.tracker_1_trace) = C21_Kept
        /\ Len(plot.tracker_2_trace) = C21_Kept
        /\ \A i \in 1..C21_Kept :
              /\ plot.target_trace[i] = C21_Recent(1)[i]
              /\ plot.tracker_1_trace[i] = C21_Recent(2)[i]
              /\ plot.tracker_2_trace[i] = C21_Recent(3)[i]
        /\ plot.raised = "none"

\* Four calls on a plot with trajectory_trace = 2: two entries have been dropped,
\* and the oldest kept one differs from the first call's in every trace.
C21_Witness ==
    /\ plot.trajectory_trace = 2
    /\ Len(added) = 4
    /\ Len(plot.target_trace) = 2
    /\ \A c \in 1..3 : added[1][c] # added[3][c]
    /\ plot.target_trace[1] = added[3][1]
    /\ plot.tracker_2_trace[2] = added[4][3]

============================================================================
